---- MODULE Spec2Model ----
(***************************************************************************)
(* Model of the hexagon resource game (HexGame component, alchemy.js):     *)
(* the tile map, the six directions, the player state held in the          *)
(* component's useState hooks, the four click handlers move, gather,       *)
(* alchemy and restoreAP, and the timer that clears the status message.    *)
(*                                                                         *)
(* Each handler runs to completion inside one click event; React flushes   *)
(* the state updates and re-renders when the handler returns, so the next  *)
(* handler call closes over the values the previous one set.  One action   *)
(* below is one handler call together with that re-render.                 *)
(***************************************************************************)
EXTENDS Integers, Sequences, FiniteSets, TLC

VARIABLES playerPos, ap, inventory, message, timers, gathered, calls, segment,
          pending

\* the component's state, and the clear-timers pending in the event loop
state == <<playerPos, ap, inventory, message, timers>>
\* history of the run: successful gathers per tile key, handler calls made,
\* and the successful actions since the last restoreAP with their AP cost
hist == <<gathered, calls, segment>>
\* the state updates a handler has queued and React has not rendered yet,
\* with the calls that queued them; empty wherever a call and its render
\* are one step
NothingPending == [queue |-> <<>>, issued |-> <<>>]
vars == <<playerPos, ap, inventory, message, timers, gathered, calls, segment,
          pending>>

\* ---- bounds of the exploration ----
\* pending clear-timers at most
MaxTimers == 2
\* total number of items the inventory may hold
MaxItems == 10
\* handler calls in a run of SpecYield or SpecScenario
MaxCalls == 7
\* handler calls in a run of SpecQuiet or SpecBurst
MaxShort == 3
\* handler calls issued off one render in SpecBurst
MaxBurst == 2

\* ---- the map ----
\* variant: a second tile of type home, at the corner 4,-4
TILE_DATA_SecondHome ==
    ("0,0" :> [type |-> "home", icon |-> "home", resources |-> <<>>]) @@
    ("0,-1" :> [type |-> "plain", icon |-> "plain", resources |-> << <<"wood", 3>>, <<"herbs", 1>> >>]) @@
    ("1,-1" :> [type |-> "plain", icon |-> "plain", resources |-> << <<"stone", 2>>, <<"iron", 1>> >>]) @@
    ("1,0" :> [type |-> "plain", icon |-> "plain", resources |-> << <<"wood", 3>>, <<"herbs", 1>> >>]) @@
    ("0,1" :> [type |-> "plain", icon |-> "plain", resources |-> << <<"wood", 3>>, <<"herbs", 1>> >>]) @@
    ("-1,1" :> [type |-> "plain", icon |-> "plain", resources |-> << <<"stone", 2>>, <<"iron", 1>> >>]) @@
    ("-1,0" :> [type |-> "plain", icon |-> "plain", resources |-> << <<"wood", 3>>, <<"herbs", 1>> >>]) @@
    ("0,-2" :> [type |-> "forest", icon |-> "tree", resources |-> << <<"stone", 2>>, <<"iron", 1>> >>]) @@
    ("1,-2" :> [type |-> "forest", icon |-> "tree", resources |-> << <<"fish", 2>>, <<"water", 3>> >>]) @@
    ("2,-2" :> [type |-> "forest", icon |-> "tree", resources |-> << <<"stone", 2>>, <<"iron", 1>> >>]) @@
    ("2,-1" :> [type |-> "forest", icon |-> "tree", resources |-> << <<"fish", 2>>, <<"water", 3>> >>]) @@
    ("2,0" :> [type |-> "forest", icon |-> "tree", resources |-> << <<"stone", 2>>, <<"iron", 1>> >>]) @@
    ("1,1" :> [type |-> "forest", icon |-> "tree", resources |-> << <<"stone", 2>>, <<"iron", 1>> >>]) @@
    ("0,2" :> [type |-> "forest", icon |-> "tree", resources |-> << <<"stone", 2>>, <<"iron", 1>> >>]) @@
    ("-1,2" :> [type |-> "forest", icon |-> "tree", resources |-> << <<"fish", 2>>, <<"water", 3>> >>]) @@
    ("-2,2" :> [type |-> "forest", icon |-> "tree", resources |-> << <<"stone", 2>>, <<"iron", 1>> >>]) @@
    ("-2,1" :> [type |-> "forest", icon |-> "tree", resources |-> << <<"fish", 2>>, <<"water", 3>> >>]) @@
    ("-2,0" :> [type |-> "forest", icon |-> "tree", resources |-> << <<"stone", 2>>, <<"iron", 1>> >>]) @@
    ("-1,-1" :> [type |-> "forest", icon |-> "tree", resources |-> << <<"stone", 2>>, <<"iron", 1>> >>]) @@
    ("0,-3" :> [type |-> "mountain", icon |-> "mountain", resources |-> << <<"wheat", 2>> >>]) @@
    ("1,-3" :> [type |-> "water", icon |-> "water", resources |-> << <<"fish", 2>>, <<"water", 3>> >>]) @@
    ("2,-3" :> [type |-> "water", icon |-> "water", resources |-> << <<"wheat", 2>> >>]) @@
    ("3,-3" :> [type |-> "mountain", icon |-> "mountain", resources |-> << <<"wheat", 2>> >>]) @@
    ("3,-2" :> [type |-> "water", icon |-> "water", resources |-> << <<"wheat", 2>> >>]) @@
    ("3,-1" :> [type |-> "water", icon |-> "water", resources |-> << <<"wheat", 2>> >>]) @@
    ("3,0" :> [type |-> "mountain", icon |-> "mountain", resources |-> << <<"wheat", 2>> >>]) @@
    ("2,1" :> [type |-> "water", icon |-> "water", resources |-> << <<"wheat", 2>> >>]) @@
    ("1,2" :> [type |-> "water", icon |-> "water", resources |-> << <<"wheat", 2>> >>]) @@
    ("0,3" :> [type |-> "mountain", icon |-> "mountain", resources |-> << <<"wheat", 2>> >>]) @@
    ("-1,3" :> [type |-> "water", icon |-> "water", resources |-> << <<"fish", 2>>, <<"water", 3>> >>]) @@
    ("-2,3" :> [type |-> "water", icon |-> "water", resources |-> << <<"wheat", 2>> >>]) @@
    ("-3,3" :> [type |-> "mountain", icon |-> "mountain", resources |-> << <<"wheat", 2>> >>]) @@
    ("-3,2" :> [type |-> "water", icon |-> "water", resources |-> << <<"wheat", 2>> >>]) @@
    ("-3,1" :> [type |-> "water", icon |-> "water", resources |-> << <<"wheat", 2>> >>]) @@
    ("-3,0" :> [type |-> "mountain", icon |-> "mountain", resources |-> << <<"wheat", 2>> >>]) @@
    ("-2,-1" :> [type |-> "water", icon |-> "water", resources |-> << <<"wheat", 2>> >>]) @@
    ("-1,-2" :> [type |-> "water", icon |-> "water", resources |-> << <<"wheat", 2>> >>]) @@
    ("0,-4" :> [type |-> "plains", icon |-> "plains", resources |-> << <<"wheat", 2>> >>]) @@
    ("1,-4" :> [type |-> "plains", icon |-> "plains", resources |-> << <<"wheat", 2>> >>]) @@
    ("2,-4" :> [type |-> "plains", icon |-> "plains", resources |-> << <<"wheat", 2>> >>]) @@
    ("3,-4" :> [type |-> "plains", icon |-> "plains", resources |-> << <<"wheat", 2>> >>]) @@
    ("4,-4" :> [type |-> "home", icon |-> "home", resources |-> << <<"wheat", 2>> >>]) @@
    ("4,-3" :> [type |-> "plains", icon |-> "plains", resources |-> << <<"wheat", 2>> >>]) @@
    ("4,-2" :> [type |-> "plains", icon |-> "plains", resources |-> << <<"wheat", 2>> >>]) @@
    ("4,-1" :> [type |-> "plains", icon |-> "plains", resources |-> << <<"wheat", 2>> >>]) @@
    ("4,0" :> [type |-> "plains", icon |-> "plains", resources |-> << <<"wheat", 2>> >>]) @@
    ("3,1" :> [type |-> "plains", icon |-> "plains", resources |-> << <<"wheat", 2>> >>]) @@
    ("2,2" :> [type |-> "plains", icon |-> "plains", resources |-> << <<"wheat", 2>> >>]) @@
    ("1,3" :> [type |-> "plains", icon |-> "plains", resources |-> << <<"wheat", 2>> >>]) @@
    ("0,4" :> [type |-> "plains", icon |-> "plains", resources |-> << <<"wheat", 2>> >>]) @@
    ("-1,4" :> [type |-> "plains", icon |-> "plains", resources |-> << <<"wheat", 2>> >>]) @@
    ("-2,4" :> [type |-> "plains", icon |-> "plains", resources |-> << <<"wheat", 2>> >>]) @@
    ("-3,4" :> [type |-> "plains", icon |-> "plains", resources |-> << <<"wheat", 2>> >>]) @@
    ("-4,4" :> [type |-> "plains", icon |-> "plains", resources |-> << <<"wheat", 2>> >>]) @@
    ("-4,3" :> [type |-> "plains", icon |-> "plains", resources |-> << <<"wheat", 2>> >>]) @@
    ("-4,2" :> [type |-> "plains", icon |-> "plains", resources |-> << <<"wheat", 2>> >>]) @@
    ("-4,1" :> [type |-> "plains", icon |-> "plains", resources |-> << <<"wheat", 2>> >>]) @@
    ("-4,0" :> [type |-> "plains", icon |-> "plains", resources |-> << <<"wheat", 2>> >>]) @@
    ("-3,-1" :> [type |-> "plains", icon |-> "plains", resources |-> << <<"wheat", 2>> >>]) @@
    ("-2,-2" :> [type |-> "plains", icon |-> "plains", resources |-> << <<"wheat", 2>> >>]) @@
    ("-1,-3" :> [type |-> "plains", icon |-> "plains", resources |-> << <<"wheat", 2>> >>])

\* variant: the tile north of Home yields nothing
TILE_DATA_BarrenTile ==
    ("0,0" :> [type |-> "home", icon |-> "home", resources |-> <<>>]) @@
    ("0,-1" :> [type |-> "plain", icon |-> "plain", resources |-> <<>>]) @@
    ("1,-1" :> [type |-> "plain", icon |-> "plain", resources |-> << <<"stone", 2>>, <<"iron", 1>> >>]) @@
    ("1,0" :> [type |-> "plain", icon |-> "plain", resources |-> << <<"wood", 3>>, <<"herbs", 1>> >>]) @@
    ("0,1" :> [type |-> "plain", icon |-> "plain", resources |-> << <<"wood", 3>>, <<"herbs", 1>> >>]) @@
    ("-1,1" :> [type |-> "plain", icon |-> "plain", resources |-> << <<"stone", 2>>, <<"iron", 1>> >>]) @@
    ("-1,0" :> [type |-> "plain", icon |-> "plain", resources |-> << <<"wood", 3>>, <<"herbs", 1>> >>]) @@
    ("0,-2" :> [type |-> "forest", icon |-> "tree", resources |-> << <<"stone", 2>>, <<"iron", 1>> >>]) @@
    ("1,-2" :> [type |-> "forest", icon |-> "tree", resources |-> << <<"fish", 2>>, <<"water", 3>> >>]) @@
    ("2,-2" :> [type |-> "forest", icon |-> "tree", resources |-> << <<"stone", 2>>, <<"iron", 1>> >>]) @@
    ("2,-1" :> [type |-> "forest", icon |-> "tree", resources |-> << <<"fish", 2>>, <<"water", 3>> >>]) @@
    ("2,0" :> [type |-> "forest", icon |-> "tree", resources |-> << <<"stone", 2>>, <<"iron", 1>> >>]) @@
    ("1,1" :> [type |-> "forest", icon |-> "tree", resources |-> << <<"stone", 2>>, <<"iron", 1>> >>]) @@
    ("0,2" :> [type |-> "forest", icon |-> "tree", resources |-> << <<"stone", 2>>, <<"iron", 1>> >>]) @@
    ("-1,2" :> [type |-> "forest", icon |-> "tree", resources |-> << <<"fish", 2>>, <<"water", 3>> >>]) @@
    ("-2,2" :> [type |-> "forest", icon |-> "tree", resources |-> << <<"stone", 2>>, <<"iron", 1>> >>]) @@
    ("-2,1" :> [type |-> "forest", icon |-> "tree", resources |-> << <<"fish", 2>>, <<"water", 3>> >>]) @@
    ("-2,0" :> [type |-> "forest", icon |-> "tree", resources |-> << <<"stone", 2>>, <<"iron", 1>> >>]) @@
    ("-1,-1" :> [type |-> "forest", icon |-> "tree", resources |-> << <<"stone", 2>>, <<"iron", 1>> >>]) @@
    ("0,-3" :> [type |-> "mountain", icon |-> "mountain", resources |-> << <<"wheat", 2>> >>]) @@
    ("1,-3" :> [type |-> "water", icon |-> "water", resources |-> << <<"fish", 2>>, <<"water", 3>> >>]) @@
    ("2,-3" :> [type |-> "water", icon |-> "water", resources |-> << <<"wheat", 2>> >>]) @@
    ("3,-3" :> [type |-> "mountain", icon |-> "mountain", resources |-> << <<"wheat", 2>> >>]) @@
    ("3,-2" :> [type |-> "water", icon |-> "water", resources |-> << <<"wheat", 2>> >>]) @@
    ("3,-1" :> [type |-> "water", icon |-> "water", resources |-> << <<"wheat", 2>> >>]) @@
    ("3,0" :> [type |-> "mountain", icon |-> "mountain", resources |-> << <<"wheat", 2>> >>]) @@
    ("2,1" :> [type |-> "water", icon |-> "water", resources |-> << <<"wheat", 2>> >>]) @@
    ("1,2" :> [type |-> "water", icon |-> "water", resources |-> << <<"wheat", 2>> >>]) @@
    ("0,3" :> [type |-> "mountain", icon |-> "mountain", resources |-> << <<"wheat", 2>> >>]) @@
    ("-1,3" :> [type |-> "water", icon |-> "water", resources |-> << <<"fish", 2>>, <<"water", 3>> >>]) @@
    ("-2,3" :> [type |-> "water", icon |-> "water", resources |-> << <<"wheat", 2>> >>]) @@
    ("-3,3" :> [type |-> "mountain", icon |-> "mountain", resources |-> << <<"wheat", 2>> >>]) @@
    ("-3,2" :> [type |-> "water", icon |-> "water", resources |-> << <<"wheat", 2>> >>]) @@
    ("-3,1" :> [type |-> "water", icon |-> "water", resources |-> << <<"wheat", 2>> >>]) @@
    ("-3,0" :> [type |-> "mountain", icon |-> "mountain", resources |-> << <<"wheat", 2>> >>]) @@
    ("-2,-1" :> [type |-> "water", icon |-> "water", resources |-> << <<"wheat", 2>> >>]) @@
    ("-1,-2" :> [type |-> "water", icon |-> "water", resources |-> << <<"wheat", 2>> >>]) @@
    ("0,-4" :> [type |-> "plains", icon |-> "plains", resources |-> << <<"wheat", 2>> >>]) @@
    ("1,-4" :> [type |-> "plains", icon |-> "plains", resources |-> << <<"wheat", 2>> >>]) @@
    ("2,-4" :> [type |-> "plains", icon |-> "plains", resources |-> << <<"wheat", 2>> >>]) @@
    ("3,-4" :> [type |-> "plains", icon |-> "plains", resources |-> << <<"wheat", 2>> >>]) @@
    ("4,-4" :> [type |-> "plains", icon |-> "plains", resources |-> << <<"wheat", 2>> >>]) @@
    ("4,-3" :> [type |-> "plains", icon |-> "plains", resources |-> << <<"wheat", 2>> >>]) @@
    ("4,-2" :> [type |-> "plains", icon |-> "plains", resources |-> << <<"wheat", 2>> >>]) @@
    ("4,-1" :> [type |-> "plains", icon |-> "plains", resources |-> << <<"wheat", 2>> >>]) @@
    ("4,0" :> [type |-> "plains", icon |-> "plains", resources |-> << <<"wheat", 2>> >>]) @@
    ("3,1" :> [type |-> "plains", icon |-> "plains", resources |-> << <<"wheat", 2>> >>]) @@
    ("2,2" :> [type |-> "plains", icon |-> "plains", resources |-> << <<"wheat", 2>> >>]) @@
    ("1,3" :> [type |-> "plains", icon |-> "plains", resources |-> << <<"wheat", 2>> >>]) @@
    ("0,4" :> [type |-> "plains", icon |-> "plains", resources |-> << <<"wheat", 2>> >>]) @@
    ("-1,4" :> [type |-> "plains", icon |-> "plains", resources |-> << <<"wheat", 2>> >>]) @@
    ("-2,4" :> [type |-> "plains", icon |-> "plains", resources |-> << <<"wheat", 2>> >>]) @@
    ("-3,4" :> [type |-> "plains", icon |-> "plains", resources |-> << <<"wheat", 2>> >>]) @@
    ("-4,4" :> [type |-> "plains", icon |-> "plains", resources |-> << <<"wheat", 2>> >>]) @@
    ("-4,3" :> [type |-> "plains", icon |-> "plains", resources |-> << <<"wheat", 2>> >>]) @@
    ("-4,2" :> [type |-> "plains", icon |-> "plains", resources |-> << <<"wheat", 2>> >>]) @@
    ("-4,1" :> [type |-> "plains", icon |-> "plains", resources |-> << <<"wheat", 2>> >>]) @@
    ("-4,0" :> [type |-> "plains", icon |-> "plains", resources |-> << <<"wheat", 2>> >>]) @@
    ("-3,-1" :> [type |-> "plains", icon |-> "plains", resources |-> << <<"wheat", 2>> >>]) @@
    ("-2,-2" :> [type |-> "plains", icon |-> "plains", resources |-> << <<"wheat", 2>> >>]) @@
    ("-1,-3" :> [type |-> "plains", icon |-> "plains", resources |-> << <<"wheat", 2>> >>])

\* variant: the last tile of ring 4 left out
TILE_DATA_MissingTile ==
    ("0,0" :> [type |-> "home", icon |-> "home", resources |-> <<>>]) @@
    ("0,-1" :> [type |-> "plain", icon |-> "plain", resources |-> << <<"wood", 3>>, <<"herbs", 1>> >>]) @@
    ("1,-1" :> [type |-> "plain", icon |-> "plain", resources |-> << <<"stone", 2>>, <<"iron", 1>> >>]) @@
    ("1,0" :> [type |-> "plain", icon |-> "plain", resources |-> << <<"wood", 3>>, <<"herbs", 1>> >>]) @@
    ("0,1" :> [type |-> "plain", icon |-> "plain", resources |-> << <<"wood", 3>>, <<"herbs", 1>> >>]) @@
    ("-1,1" :> [type |-> "plain", icon |-> "plain", resources |-> << <<"stone", 2>>, <<"iron", 1>> >>]) @@
    ("-1,0" :> [type |-> "plain", icon |-> "plain", resources |-> << <<"wood", 3>>, <<"herbs", 1>> >>]) @@
    ("0,-2" :> [type |-> "forest", icon |-> "tree", resources |-> << <<"stone", 2>>, <<"iron", 1>> >>]) @@
    ("1,-2" :> [type |-> "forest", icon |-> "tree", resources |-> << <<"fish", 2>>, <<"water", 3>> >>]) @@
    ("2,-2" :> [type |-> "forest", icon |-> "tree", resources |-> << <<"stone", 2>>, <<"iron", 1>> >>]) @@
    ("2,-1" :> [type |-> "forest", icon |-> "tree", resources |-> << <<"fish", 2>>, <<"water", 3>> >>]) @@
    ("2,0" :> [type |-> "forest", icon |-> "tree", resources |-> << <<"stone", 2>>, <<"iron", 1>> >>]) @@
    ("1,1" :> [type |-> "forest", icon |-> "tree", resources |-> << <<"stone", 2>>, <<"iron", 1>> >>]) @@
    ("0,2" :> [type |-> "forest", icon |-> "tree", resources |-> << <<"stone", 2>>, <<"iron", 1>> >>]) @@
    ("-1,2" :> [type |-> "forest", icon |-> "tree", resources |-> << <<"fish", 2>>, <<"water", 3>> >>]) @@
    ("-2,2" :> [type |-> "forest", icon |-> "tree", resources |-> << <<"stone", 2>>, <<"iron", 1>> >>]) @@
    ("-2,1" :> [type |-> "forest", icon |-> "tree", resources |-> << <<"fish", 2>>, <<"water", 3>> >>]) @@
    ("-2,0" :> [type |-> "forest", icon |-> "tree", resources |-> << <<"stone", 2>>, <<"iron", 1>> >>]) @@
    ("-1,-1" :> [type |-> "forest", icon |-> "tree", resources |-> << <<"stone", 2>>, <<"iron", 1>> >>]) @@
    ("0,-3" :> [type |-> "mountain", icon |-> "mountain", resources |-> << <<"wheat", 2>> >>]) @@
    ("1,-3" :> [type |-> "water", icon |-> "water", resources |-> << <<"fish", 2>>, <<"water", 3>> >>]) @@
    ("2,-3" :> [type |-> "water", icon |-> "water", resources |-> << <<"wheat", 2>> >>]) @@
    ("3,-3" :> [type |-> "mountain", icon |-> "mountain", resources |-> << <<"wheat", 2>> >>]) @@
    ("3,-2" :> [type |-> "water", icon |-> "water", resources |-> << <<"wheat", 2>> >>]) @@
    ("3,-1" :> [type |-> "water", icon |-> "water", resources |-> << <<"wheat", 2>> >>]) @@
    ("3,0" :> [type |-> "mountain", icon |-> "mountain", resources |-> << <<"wheat", 2>> >>]) @@
    ("2,1" :> [type |-> "water", icon |-> "water", resources |-> << <<"wheat", 2>> >>]) @@
    ("1,2" :> [type |-> "water", icon |-> "water", resources |-> << <<"wheat", 2>> >>]) @@
    ("0,3" :> [type |-> "mountain", icon |-> "mountain", resources |-> << <<"wheat", 2>> >>]) @@
    ("-1,3" :> [type |-> "water", icon |-> "water", resources |-> << <<"fish", 2>>, <<"water", 3>> >>]) @@
    ("-2,3" :> [type |-> "water", icon |-> "water", resources |-> << <<"wheat", 2>> >>]) @@
    ("-3,3" :> [type |-> "mountain", icon |-> "mountain", resources |-> << <<"wheat", 2>> >>]) @@
    ("-3,2" :> [type |-> "water", icon |-> "water", resources |-> << <<"wheat", 2>> >>]) @@
    ("-3,1" :> [type |-> "water", icon |-> "water", resources |-> << <<"wheat", 2>> >>]) @@
    ("-3,0" :> [type |-> "mountain", icon |-> "mountain", resources |-> << <<"wheat", 2>> >>]) @@
    ("-2,-1" :> [type |-> "water", icon |-> "water", resources |-> << <<"wheat", 2>> >>]) @@
    ("-1,-2" :> [type |-> "water", icon |-> "water", resources |-> << <<"wheat", 2>> >>]) @@
    ("0,-4" :> [type |-> "plains", icon |-> "plains", resources |-> << <<"wheat", 2>> >>]) @@
    ("1,-4" :> [type |-> "plains", icon |-> "plains", resources |-> << <<"wheat", 2>> >>]) @@
    ("2,-4" :> [type |-> "plains", icon |-> "plains", resources |-> << <<"wheat", 2>> >>]) @@
    ("3,-4" :> [type |-> "plains", icon |-> "plains", resources |-> << <<"wheat", 2>> >>]) @@
    ("4,-4" :> [type |-> "plains", icon |-> "plains", resources |-> << <<"wheat", 2>> >>]) @@
    ("4,-3" :> [type |-> "plains", icon |-> "plains", resources |-> << <<"wheat", 2>> >>]) @@
    ("4,-2" :> [type |-> "plains", icon |-> "plains", resources |-> << <<"wheat", 2>> >>]) @@
    ("4,-1" :> [type |-> "plains", icon |-> "plains", resources |-> << <<"wheat", 2>> >>]) @@
    ("4,0" :> [type |-> "plains", icon |-> "plains", resources |-> << <<"wheat", 2>> >>]) @@
    ("3,1" :> [type |-> "plains", icon |-> "plains", resources |-> << <<"wheat", 2>> >>]) @@
    ("2,2" :> [type |-> "plains", icon |-> "plains", resources |-> << <<"wheat", 2>> >>]) @@
    ("1,3" :> [type |-> "plains", icon |-> "plains", resources |-> << <<"wheat", 2>> >>]) @@
    ("0,4" :> [type |-> "plains", icon |-> "plains", resources |-> << <<"wheat", 2>> >>]) @@
    ("-1,4" :> [type |-> "plains", icon |-> "plains", resources |-> << <<"wheat", 2>> >>]) @@
    ("-2,4" :> [type |-> "plains", icon |-> "plains", resources |-> << <<"wheat", 2>> >>]) @@
    ("-3,4" :> [type |-> "plains", icon |-> "plains", resources |-> << <<"wheat", 2>> >>]) @@
    ("-4,4" :> [type |-> "plains", icon |-> "plains", resources |-> << <<"wheat", 2>> >>]) @@
    ("-4,3" :> [type |-> "plains", icon |-> "plains", resources |-> << <<"wheat", 2>> >>]) @@
    ("-4,2" :> [type |-> "plains", icon |-> "plains", resources |-> << <<"wheat", 2>> >>]) @@
    ("-4,1" :> [type |-> "plains", icon |-> "plains", resources |-> << <<"wheat", 2>> >>]) @@
    ("-4,0" :> [type |-> "plains", icon |-> "plains", resources |-> << <<"wheat", 2>> >>]) @@
    ("-3,-1" :> [type |-> "plains", icon |-> "plains", resources |-> << <<"wheat", 2>> >>]) @@
    ("-2,-2" :> [type |-> "plains", icon |-> "plains", resources |-> << <<"wheat", 2>> >>])

TILE_DATA ==
    ("0,0" :> [type |-> "home", icon |-> "home", resources |-> <<>>]) @@
    ("0,-1" :> [type |-> "plain", icon |-> "plain", resources |-> << <<"wood", 3>>, <<"herbs", 1>> >>]) @@
    ("1,-1" :> [type |-> "plain", icon |-> "plain", resources |-> << <<"stone", 2>>, <<"iron", 1>> >>]) @@
    ("1,0" :> [type |-> "plain", icon |-> "plain", resources |-> << <<"wood", 3>>, <<"herbs", 1>> >>]) @@
    ("0,1" :> [type |-> "plain", icon |-> "plain", resources |-> << <<"wood", 3>>, <<"herbs", 1>> >>]) @@
    ("-1,1" :> [type |-> "plain", icon |-> "plain", resources |-> << <<"stone", 2>>, <<"iron", 1>> >>]) @@
    ("-1,0" :> [type |-> "plain", icon |-> "plain", resources |-> << <<"wood", 3>>, <<"herbs", 1>> >>]) @@
    ("0,-2" :> [type |-> "forest", icon |-> "tree", resources |-> << <<"stone", 2>>, <<"iron", 1>> >>]) @@
    ("1,-2" :> [type |-> "forest", icon |-> "tree", resources |-> << <<"fish", 2>>, <<"water", 3>> >>]) @@
    ("2,-2" :> [type |-> "forest", icon |-> "tree", resources |-> << <<"stone", 2>>, <<"iron", 1>> >>]) @@
    ("2,-1" :> [type |-> "forest", icon |-> "tree", resources |-> << <<"fish", 2>>, <<"water", 3>> >>]) @@
    ("2,0" :> [type |-> "forest", icon |-> "tree", resources |-> << <<"stone", 2>>, <<"iron", 1>> >>]) @@
    ("1,1" :> [type |-> "forest", icon |-> "tree", resources |-> << <<"stone", 2>>, <<"iron", 1>> >>]) @@
    ("0,2" :> [type |-> "forest", icon |-> "tree", resources |-> << <<"stone", 2>>, <<"iron", 1>> >>]) @@
    ("-1,2" :> [type |-> "forest", icon |-> "tree", resources |-> << <<"fish", 2>>, <<"water", 3>> >>]) @@
    ("-2,2" :> [type |-> "forest", icon |-> "tree", resources |-> << <<"stone", 2>>, <<"iron", 1>> >>]) @@
    ("-2,1" :> [type |-> "forest", icon |-> "tree", resources |-> << <<"fish", 2>>, <<"water", 3>> >>]) @@
    ("-2,0" :> [type |-> "forest", icon |-> "tree", resources |-> << <<"stone", 2>>, <<"iron", 1>> >>]) @@
    ("-1,-1" :> [type |-> "forest", icon |-> "tree", resources |-> << <<"stone", 2>>, <<"iron", 1>> >>]) @@
    ("0,-3" :> [type |-> "mountain", icon |-> "mountain", resources |-> << <<"wheat", 2>> >>]) @@
    ("1,-3" :> [type |-> "water", icon |-> "water", resources |-> << <<"fish", 2>>, <<"water", 3>> >>]) @@
    ("2,-3" :> [type |-> "water", icon |-> "water", resources |-> << <<"wheat", 2>> >>]) @@
    ("3,-3" :> [type |-> "mountain", icon |-> "mountain", resources |-> << <<"wheat", 2>> >>]) @@
    ("3,-2" :> [type |-> "water", icon |-> "water", resources |-> << <<"wheat", 2>> >>]) @@
    ("3,-1" :> [type |-> "water", icon |-> "water", resources |-> << <<"wheat", 2>> >>]) @@
    ("3,0" :> [type |-> "mountain", icon |-> "mountain", resources |-> << <<"wheat", 2>> >>]) @@
    ("2,1" :> [type |-> "water", icon |-> "water", resources |-> << <<"wheat", 2>> >>]) @@
    ("1,2" :> [type |-> "water", icon |-> "water", resources |-> << <<"wheat", 2>> >>]) @@
    ("0,3" :> [type |-> "mountain", icon |-> "mountain", resources |-> << <<"wheat", 2>> >>]) @@
    ("-1,3" :> [type |-> "water", icon |-> "water", resources |-> << <<"fish", 2>>, <<"water", 3>> >>]) @@
    ("-2,3" :> [type |-> "water", icon |-> "water", resources |-> << <<"wheat", 2>> >>]) @@
    ("-3,3" :> [type |-> "mountain", icon |-> "mountain", resources |-> << <<"wheat", 2>> >>]) @@
    ("-3,2" :> [type |-> "water", icon |-> "water", resources |-> << <<"wheat", 2>> >>]) @@
    ("-3,1" :> [type |-> "water", icon |-> "water", resources |-> << <<"wheat", 2>> >>]) @@
    ("-3,0" :> [type |-> "mountain", icon |-> "mountain", resources |-> << <<"wheat", 2>> >>]) @@
    ("-2,-1" :> [type |-> "water", icon |-> "water", resources |-> << <<"wheat", 2>> >>]) @@
    ("-1,-2" :> [type |-> "water", icon |-> "water", resources |-> << <<"wheat", 2>> >>]) @@
    ("0,-4" :> [type |-> "plains", icon |-> "plains", resources |-> << <<"wheat", 2>> >>]) @@
    ("1,-4" :> [type |-> "plains", icon |-> "plains", resources |-> << <<"wheat", 2>> >>]) @@
    ("2,-4" :> [type |-> "plains", icon |-> "plains", resources |-> << <<"wheat", 2>> >>]) @@
    ("3,-4" :> [type |-> "plains", icon |-> "plains", resources |-> << <<"wheat", 2>> >>]) @@
    ("4,-4" :> [type |-> "plains", icon |-> "plains", resources |-> << <<"wheat", 2>> >>]) @@
    ("4,-3" :> [type |-> "plains", icon |-> "plains", resources |-> << <<"wheat", 2>> >>]) @@
    ("4,-2" :> [type |-> "plains", icon |-> "plains", resources |-> << <<"wheat", 2>> >>]) @@
    ("4,-1" :> [type |-> "plains", icon |-> "plains", resources |-> << <<"wheat", 2>> >>]) @@
    ("4,0" :> [type |-> "plains", icon |-> "plains", resources |-> << <<"wheat", 2>> >>]) @@
    ("3,1" :> [type |-> "plains", icon |-> "plains", resources |-> << <<"wheat", 2>> >>]) @@
    ("2,2" :> [type |-> "plains", icon |-> "plains", resources |-> << <<"wheat", 2>> >>]) @@
    ("1,3" :> [type |-> "plains", icon |-> "plains", resources |-> << <<"wheat", 2>> >>]) @@
    ("0,4" :> [type |-> "plains", icon |-> "plains", resources |-> << <<"wheat", 2>> >>]) @@
    ("-1,4" :> [type |-> "plains", icon |-> "plains", resources |-> << <<"wheat", 2>> >>]) @@
    ("-2,4" :> [type |-> "plains", icon |-> "plains", resources |-> << <<"wheat", 2>> >>]) @@
    ("-3,4" :> [type |-> "plains", icon |-> "plains", resources |-> << <<"wheat", 2>> >>]) @@
    ("-4,4" :> [type |-> "plains", icon |-> "plains", resources |-> << <<"wheat", 2>> >>]) @@
    ("-4,3" :> [type |-> "plains", icon |-> "plains", resources |-> << <<"wheat", 2>> >>]) @@
    ("-4,2" :> [type |-> "plains", icon |-> "plains", resources |-> << <<"wheat", 2>> >>]) @@
    ("-4,1" :> [type |-> "plains", icon |-> "plains", resources |-> << <<"wheat", 2>> >>]) @@
    ("-4,0" :> [type |-> "plains", icon |-> "plains", resources |-> << <<"wheat", 2>> >>]) @@
    ("-3,-1" :> [type |-> "plains", icon |-> "plains", resources |-> << <<"wheat", 2>> >>]) @@
    ("-2,-2" :> [type |-> "plains", icon |-> "plains", resources |-> << <<"wheat", 2>> >>]) @@
    ("-1,-3" :> [type |-> "plains", icon |-> "plains", resources |-> << <<"wheat", 2>> >>])

\* variant: SW carries the offset of NW
DIRECTIONS_FlatSW ==
    ("N"  :> [q |-> 0,  r |-> -1]) @@
    ("NE" :> [q |-> 1,  r |-> -1]) @@
    ("SE" :> [q |-> 1,  r |-> 0]) @@
    ("S"  :> [q |-> 0,  r |-> 1]) @@
    ("SW" :> [q |-> -1, r |-> 0]) @@
    ("NW" :> [q |-> -1, r |-> 0])

\* variant: the offsets of NE and SE exchanged
DIRECTIONS_Swapped ==
    ("N"  :> [q |-> 0,  r |-> -1]) @@
    ("NE" :> [q |-> 1,  r |-> 0]) @@
    ("SE" :> [q |-> 1,  r |-> -1]) @@
    ("S"  :> [q |-> 0,  r |-> 1]) @@
    ("SW" :> [q |-> -1, r |-> 1]) @@
    ("NW" :> [q |-> -1, r |-> 0])

DIRECTIONS ==
    ("N"  :> [q |-> 0,  r |-> -1]) @@
    ("NE" :> [q |-> 1,  r |-> -1]) @@
    ("SE" :> [q |-> 1,  r |-> 0]) @@
    ("S"  :> [q |-> 0,  r |-> 1]) @@
    ("SW" :> [q |-> -1, r |-> 1]) @@
    ("NW" :> [q |-> -1, r |-> 0])

\* the template literal `${q},${r}` that builds a TILE_DATA key
keyOf(pos) == ToString(pos.q) \o "," \o ToString(pos.r)

\* ---- status messages ----
WelcomeMsg == "Welcome! Move around and gather resources."
NotEnoughApMsg == "Not enough AP!"
NeedTwoApMsg == "Not enough AP! (Need 2 AP)"
CannotMoveMsg == "Cannot move there!"
HomeGatherMsg == "Nothing to gather at home base!"
NothingHereMsg == "Nothing to gather here!"
NotAtHomeMsg == "Must be at home base to use alchemy!"
AlchemyMsg == "Alchemy performed! (Function not yet implemented)"
RestoredMsg == "AP restored to 8!"

movedMsg(direction, n) == "Moved " \o direction \o ". AP: " \o ToString(n)

\* Object.entries(resources).map(([r, a]) => `${r} +${a}`).join(', ')
RECURSIVE resourceStr(_)
resourceStr(resources) ==
    IF Len(resources) = 0 THEN ""
    ELSE LET e == Head(resources)
             s == e[1] \o " +" \o ToString(e[2])
         IN IF Len(resources) = 1 THEN s
            ELSE s \o ", " \o resourceStr(Tail(resources))

gatheredMsg(resources) == "Gathered: " \o resourceStr(resources)

\* ---- helpers of gather ----
\* variant: an absent entry counts as 1
orZero_One(inv, resource) ==
    IF resource \in DOMAIN inv /\ inv[resource] # 0 THEN inv[resource] ELSE 1

\* (newInventory[resource] || 0)
orZero(inv, resource) ==
    IF resource \in DOMAIN inv /\ inv[resource] # 0 THEN inv[resource] ELSE 0

\* variant: the entry is overwritten with the amount instead of increased
addEntry_Overwrite(inv, resource, amount) ==
    [k \in DOMAIN inv \cup {resource} |->
        IF k = resource THEN amount ELSE inv[k]]

\* variant: a kind already held yields one less
addEntry_Depleting(inv, resource, amount) ==
    [k \in DOMAIN inv \cup {resource} |->
        IF k = resource
        THEN orZero(inv, resource)
             + (IF resource \in DOMAIN inv THEN amount - 1 ELSE amount)
        ELSE inv[k]]

\* newInventory[resource] = (newInventory[resource] || 0) + amount
addEntry(inv, resource, amount) ==
    [k \in DOMAIN inv \cup {resource} |->
        IF k = resource THEN orZero(inv, resource) + amount ELSE inv[k]]

\* Object.entries(resources).forEach(...) over a copy of the inventory
RECURSIVE addResources(_, _)
addResources(inv, resources) ==
    IF Len(resources) = 0 THEN inv
    ELSE addResources(addEntry(inv, Head(resources)[1], Head(resources)[2]),
                      Tail(resources))

\* the number of items in an inventory: the sum of its counts
RECURSIVE sumOver(_, _)
sumOver(inv, S) ==
    IF S = {} THEN 0
    ELSE LET k == CHOOSE x \in S : TRUE
         IN inv[k] + sumOver(inv, S \ {k})

itemCount(inv) == sumOver(inv, DOMAIN inv)

\* ---- values computed at render ----
currentTile == TILE_DATA[keyOf(playerPos)]
atHome == playerPos.q = 0 /\ playerPos.r = 0
\* variant: the gather button asks for 1 AP only
canGather_ApOne == ~atHome /\ ap >= 1 /\ Len(currentTile.resources) > 0
canGather == ~atHome /\ ap >= 2 /\ Len(currentTile.resources) > 0
canAlchemy == atHome /\ ap >= 2

\* ---- the buttons: which of them the render leaves enabled ----
\* the six move buttons and the restore button carry no disabled attribute
moveButtonEnabled(direction) == TRUE
gatherButtonEnabled == ~ ~canGather
alchemyButtonEnabled == ~ ~canAlchemy
restoreButtonEnabled == TRUE

\* ---- the handlers ----
\* variant: the message is set and no timer is scheduled
showMessage_NoTimer(msg) ==
    /\ timers < MaxTimers
    /\ message' = msg
    /\ UNCHANGED timers

showMessage(msg) ==
    /\ timers < MaxTimers
    /\ message' = msg
    /\ timers' = timers + 1

\* variant: no AP check
move_NoApCheck(direction) ==
    LET dir == DIRECTIONS[direction]
        newPos == [q |-> playerPos.q + dir.q, r |-> playerPos.r + dir.r]
        key == keyOf(newPos)
    IN IF key \in DOMAIN TILE_DATA
       THEN /\ playerPos' = newPos
            /\ ap' = ap - 1
            /\ showMessage(movedMsg(direction, ap - 1))
            /\ UNCHANGED inventory
       ELSE /\ showMessage(CannotMoveMsg)
            /\ UNCHANGED <<playerPos, ap, inventory>>

\* variant: no check that the map has the target tile
move_NoMapCheck(direction) ==
    IF ap < 1
    THEN /\ showMessage(NotEnoughApMsg)
         /\ UNCHANGED <<playerPos, ap, inventory>>
    ELSE LET dir == DIRECTIONS[direction]
             newPos == [q |-> playerPos.q + dir.q, r |-> playerPos.r + dir.r]
         IN /\ playerPos' = newPos
            /\ ap' = ap - 1
            /\ showMessage(movedMsg(direction, ap - 1))
            /\ UNCHANGED inventory

\* variant: a refused move is still charged
move_ChargeOnRefusal(direction) ==
    IF ap < 1
    THEN /\ showMessage(NotEnoughApMsg)
         /\ UNCHANGED <<playerPos, ap, inventory>>
    ELSE LET dir == DIRECTIONS[direction]
             newPos == [q |-> playerPos.q + dir.q, r |-> playerPos.r + dir.r]
             key == keyOf(newPos)
         IN /\ ap' = ap - 1
            /\ UNCHANGED inventory
            /\ IF key \in DOMAIN TILE_DATA
               THEN /\ playerPos' = newPos
                    /\ showMessage(movedMsg(direction, ap - 1))
               ELSE /\ showMessage(CannotMoveMsg)
                    /\ UNCHANGED playerPos

\* variant: a successful move is not charged
move_Free(direction) ==
    IF ap < 1
    THEN /\ showMessage(NotEnoughApMsg)
         /\ UNCHANGED <<playerPos, ap, inventory>>
    ELSE LET dir == DIRECTIONS[direction]
             newPos == [q |-> playerPos.q + dir.q, r |-> playerPos.r + dir.r]
             key == keyOf(newPos)
         IN IF key \in DOMAIN TILE_DATA
            THEN /\ playerPos' = newPos
                 /\ showMessage(movedMsg(direction, ap - 1))
                 /\ UNCHANGED <<ap, inventory>>
            ELSE /\ showMessage(CannotMoveMsg)
                 /\ UNCHANGED <<playerPos, ap, inventory>>

move(direction) ==
    IF ap < 1
    THEN /\ showMessage(NotEnoughApMsg)
         /\ UNCHANGED <<playerPos, ap, inventory>>
    ELSE LET dir == DIRECTIONS[direction]
             newPos == [q |-> playerPos.q + dir.q, r |-> playerPos.r + dir.r]
             key == keyOf(newPos)
         IN IF key \in DOMAIN TILE_DATA
            THEN /\ playerPos' = newPos
                 /\ ap' = ap - 1
                 /\ showMessage(movedMsg(direction, ap - 1))
                 /\ UNCHANGED inventory
            ELSE /\ showMessage(CannotMoveMsg)
                 /\ UNCHANGED <<playerPos, ap, inventory>>

\* variant: no check for the Home tile
gather_NoHomeCheck ==
    IF ap < 2
    THEN /\ showMessage(NeedTwoApMsg)
         /\ UNCHANGED <<playerPos, ap, inventory>>
    ELSE LET key == keyOf(playerPos)
             tile == TILE_DATA[key]
             resources == tile.resources
         IN IF Len(resources) = 0
            THEN /\ showMessage(NothingHereMsg)
                 /\ UNCHANGED <<playerPos, ap, inventory>>
            ELSE LET newInventory == addResources(inventory, resources)
                 IN /\ itemCount(newInventory) <= MaxItems
                    /\ inventory' = newInventory
                    /\ ap' = ap - 2
                    /\ showMessage(gatheredMsg(resources))
                    /\ UNCHANGED playerPos

\* variant: the Home check comes before the AP check
gather_LocationFirst ==
    LET key == keyOf(playerPos)
        tile == TILE_DATA[key]
        resources == tile.resources
    IN IF tile.type = "home"
       THEN /\ showMessage(HomeGatherMsg)
            /\ UNCHANGED <<playerPos, ap, inventory>>
       ELSE IF ap < 2
       THEN /\ showMessage(NeedTwoApMsg)
            /\ UNCHANGED <<playerPos, ap, inventory>>
       ELSE IF Len(resources) = 0
       THEN /\ showMessage(NothingHereMsg)
            /\ UNCHANGED <<playerPos, ap, inventory>>
       ELSE LET newInventory == addResources(inventory, resources)
            IN /\ itemCount(newInventory) <= MaxItems
               /\ inventory' = newInventory
               /\ ap' = ap - 2
               /\ showMessage(gatheredMsg(resources))
               /\ UNCHANGED playerPos

\* variant: no check for an empty yield table
gatherOn_NoEmptyCheck(tile) ==
    IF ap < 2
    THEN /\ showMessage(NeedTwoApMsg)
         /\ UNCHANGED <<playerPos, ap, inventory>>
    ELSE LET resources == tile.resources
         IN IF tile.type = "home"
            THEN /\ showMessage(HomeGatherMsg)
                 /\ UNCHANGED <<playerPos, ap, inventory>>
            ELSE LET newInventory == addResources(inventory, resources)
                 IN /\ itemCount(newInventory) <= MaxItems
                    /\ inventory' = newInventory
                    /\ ap' = ap - 2
                    /\ showMessage(gatheredMsg(resources))
                    /\ UNCHANGED playerPos

\* the body of gather, given the tile its lookup returns
gatherOn(tile) ==
    IF ap < 2
    THEN /\ showMessage(NeedTwoApMsg)
         /\ UNCHANGED <<playerPos, ap, inventory>>
    ELSE LET resources == tile.resources
         IN IF tile.type = "home"
            THEN /\ showMessage(HomeGatherMsg)
                 /\ UNCHANGED <<playerPos, ap, inventory>>
            ELSE IF Len(resources) = 0
            THEN /\ showMessage(NothingHereMsg)
                 /\ UNCHANGED <<playerPos, ap, inventory>>
            ELSE LET newInventory == addResources(inventory, resources)
                 IN /\ itemCount(newInventory) <= MaxItems
                    /\ inventory' = newInventory
                    /\ ap' = ap - 2
                    /\ showMessage(gatheredMsg(resources))
                    /\ UNCHANGED playerPos

gather == gatherOn(TILE_DATA[keyOf(playerPos)])

\* variant: a performed alchemy uses up the inventory
alchemy_Consume ==
    IF ap < 2
    THEN /\ showMessage(NeedTwoApMsg)
         /\ UNCHANGED <<playerPos, ap, inventory>>
    ELSE IF playerPos.q # 0 \/ playerPos.r # 0
    THEN /\ showMessage(NotAtHomeMsg)
         /\ UNCHANGED <<playerPos, ap, inventory>>
    ELSE /\ ap' = ap - 2
         /\ inventory' = [k \in {} |-> 0]
         /\ showMessage(AlchemyMsg)
         /\ UNCHANGED playerPos

\* variant: no check for the Home coordinate
alchemy_NoHomeCheck ==
    IF ap < 2
    THEN /\ showMessage(NeedTwoApMsg)
         /\ UNCHANGED <<playerPos, ap, inventory>>
    ELSE /\ ap' = ap - 2
         /\ showMessage(AlchemyMsg)
         /\ UNCHANGED <<playerPos, inventory>>

\* variant: the AP is charged before the Home coordinate is checked
alchemy_ChargeFirst ==
    IF ap < 2
    THEN /\ showMessage(NeedTwoApMsg)
         /\ UNCHANGED <<playerPos, ap, inventory>>
    ELSE /\ ap' = ap - 2
         /\ UNCHANGED <<playerPos, inventory>>
         /\ IF playerPos.q # 0 \/ playerPos.r # 0
            THEN showMessage(NotAtHomeMsg)
            ELSE showMessage(AlchemyMsg)

alchemy ==
    IF ap < 2
    THEN /\ showMessage(NeedTwoApMsg)
         /\ UNCHANGED <<playerPos, ap, inventory>>
    ELSE IF playerPos.q # 0 \/ playerPos.r # 0
    THEN /\ showMessage(NotAtHomeMsg)
         /\ UNCHANGED <<playerPos, ap, inventory>>
    ELSE /\ ap' = ap - 2
         /\ showMessage(AlchemyMsg)
         /\ UNCHANGED <<playerPos, inventory>>

\* variant: 8 AP are added to the balance
restoreAP_Additive ==
    /\ ap' = ap + 8
    /\ showMessage(RestoredMsg)
    /\ UNCHANGED <<playerPos, inventory>>

\* variant: the AP is restored without a status message
restoreAP_Silent ==
    /\ ap' = 8
    /\ UNCHANGED <<playerPos, inventory, message, timers>>

\* variant: the AP is restored only once it has run out
restoreAP_WhenSpent ==
    /\ IF ap > 0
       THEN showMessage(NotEnoughApMsg) /\ UNCHANGED ap
       ELSE ap' = 8 /\ showMessage(RestoredMsg)
    /\ UNCHANGED <<playerPos, inventory>>

restoreAP ==
    /\ ap' = 8
    /\ showMessage(RestoredMsg)
    /\ UNCHANGED <<playerPos, inventory>>

\* variant: the timer callback also gives one AP back, up to 8
clearMessage_Regen ==
    /\ timers > 0
    /\ message' = ""
    /\ timers' = timers - 1
    /\ ap' = IF ap < 8 THEN ap + 1 ELSE ap
    /\ UNCHANGED <<playerPos, inventory>>

\* the callback of setTimeout(() => setMessage(''), 3000)
clearMessage ==
    /\ timers > 0
    /\ message' = ""
    /\ timers' = timers - 1
    /\ UNCHANGED <<playerPos, ap, inventory>>

\* ---- the specification ----
Init ==
    /\ playerPos = [q |-> 0, r |-> 0]
    /\ ap = 8
    /\ inventory = [k \in {} |-> 0]
    /\ message = WelcomeMsg
    /\ timers = 0
    /\ gathered = [k \in {} |-> 0]
    /\ calls = 0
    /\ segment = [spent |-> 0, actions |-> 0, gathers |-> 0]
    /\ pending = NothingPending

Next ==
    \/ \E direction \in DOMAIN DIRECTIONS : move(direction) /\ UNCHANGED <<hist, pending>>
    \/ gather /\ UNCHANGED <<hist, pending>>
    \/ alchemy /\ UNCHANGED <<hist, pending>>
    \/ restoreAP /\ UNCHANGED <<hist, pending>>
    \/ clearMessage /\ UNCHANGED <<hist, pending>>

Spec == Init /\ [][Next]_vars

\* The same handlers with the history recorded: every handler call is
\* counted, and a gather that reports success is counted at its tile.
recordGather ==
    IF message' = gatheredMsg(currentTile.resources)
    THEN LET key == keyOf(playerPos)
         IN gathered' = [k \in DOMAIN gathered \cup {key} |->
                IF k = key
                THEN (IF key \in DOMAIN gathered THEN gathered[key] ELSE 0) + 1
                ELSE gathered[k]]
    ELSE UNCHANGED gathered

countCall ==
    /\ calls < MaxCalls
    /\ calls' = calls + 1

NextYield ==
    \/ \E direction \in DOMAIN DIRECTIONS :
          move(direction) /\ countCall /\ UNCHANGED <<gathered, segment, pending>>
    \/ gather /\ countCall /\ recordGather /\ UNCHANGED <<segment, pending>>
    \/ alchemy /\ countCall /\ UNCHANGED <<gathered, segment, pending>>
    \/ restoreAP /\ countCall /\ UNCHANGED <<gathered, segment, pending>>
    \/ clearMessage /\ UNCHANGED <<hist, pending>>

SpecYield == Init /\ [][NextYield]_vars

\* A session whose first five handler calls are move('N'), gather(),
\* move('S'), gather(), restoreAP(), in this order, and whose later calls
\* are free; the timer callbacks run whenever they are due.
NextScenario ==
    \/ calls = 0 /\ move("N") /\ countCall /\ UNCHANGED <<gathered, segment, pending>>
    \/ calls = 1 /\ gather /\ countCall /\ recordGather /\ UNCHANGED <<segment, pending>>
    \/ calls = 2 /\ move("S") /\ countCall /\ UNCHANGED <<gathered, segment, pending>>
    \/ calls = 3 /\ gather /\ countCall /\ recordGather /\ UNCHANGED <<segment, pending>>
    \/ calls = 4 /\ restoreAP /\ countCall /\ UNCHANGED <<gathered, segment, pending>>
    \/ calls >= 5 /\ \E direction \in DOMAIN DIRECTIONS :
          move(direction) /\ countCall /\ UNCHANGED <<gathered, segment, pending>>
    \/ calls >= 5 /\ gather /\ countCall /\ recordGather /\ UNCHANGED <<segment, pending>>
    \/ calls >= 5 /\ alchemy /\ countCall /\ UNCHANGED <<gathered, segment, pending>>
    \/ calls >= 5 /\ restoreAP /\ countCall /\ UNCHANGED <<gathered, segment, pending>>
    \/ clearMessage /\ UNCHANGED <<hist, pending>>

SpecScenario == Init /\ [][NextScenario]_vars

\* The gather handler as a function of the tile it finds: the AP and the
\* inventory start at any values a session can have at Home with no timer
\* pending, and gather is applied to any tile record, those of the map and
\* one of a non-Home type with an empty resources object (the map has no
\* such tile, so the session itself never takes gather's third return).
sampleTiles ==
    { TILE_DATA[key] : key \in DOMAIN TILE_DATA }
        \cup { [type |-> "plain", icon |-> "plain", resources |-> <<>>] }

InitGather ==
    /\ playerPos = [q |-> 0, r |-> 0]
    /\ ap \in 0..8
    /\ inventory \in { [k \in {} |-> 0], ("wood" :> 3) @@ ("herbs" :> 1) }
    /\ message = ""
    /\ timers = 0
    /\ gathered = [k \in {} |-> 0]
    /\ calls = 0
    /\ segment = [spent |-> 0, actions |-> 0, gathers |-> 0]
    /\ pending = NothingPending

NextGather ==
    \/ \E tile \in sampleTiles : gatherOn(tile) /\ UNCHANGED <<hist, pending>>
    \/ clearMessage /\ UNCHANGED <<hist, pending>>

SpecGather == InitGather /\ [][NextGather]_vars

\* ======================================================================
\* Properties
\* ======================================================================

\* the player state of the specification: position, AP and inventory
player == <<playerPos, ap, inventory>>

\* every resource kind a tile of the map yields
Kinds ==
    UNION { { TILE_DATA[t].resources[i][1] :
                i \in DOMAIN TILE_DATA[t].resources } : t \in DOMAIN TILE_DATA }

\* the inventory count of kind k, 0 when there is no entry
countOf(inv, k) == IF k \in DOMAIN inv THEN inv[k] ELSE 0

\* the amount of kind k in a yield table
RECURSIVE yieldOf(_, _)
yieldOf(resources, k) ==
    IF Len(resources) = 0 THEN 0
    ELSE (IF Head(resources)[1] = k THEN Head(resources)[2] ELSE 0)
         + yieldOf(Tail(resources), k)

yieldKinds(resources) == { resources[i][1] : i \in DOMAIN resources }

\* the coordinate one step from the player in a direction, and whether the
\* map has a tile there
target(direction) ==
    [q |-> playerPos.q + DIRECTIONS[direction].q,
     r |-> playerPos.r + DIRECTIONS[direction].r]
offMap(direction) == keyOf(target(direction)) \notin DOMAIN TILE_DATA

\* this step is a gather call that reported success
gatherSucceeds == gather /\ message' = gatheredMsg(currentTile.resources)

\* C1: in every reachable state the action-point balance is an integer
\* with 0 <= AP <= 8.
C1_ApInRange == ap \in Int /\ 0 <= ap /\ ap <= 8

\* AP has been spent down to 0 by moves and gathers away from Home
C1_Witness == ap = 0 /\ ~atHome /\ itemCount(inventory) > 0

\* C2: in every reachable state the player's position is the coordinate of
\* a tile of the map, so the current-tile lookup never yields an absent tile.
C2_PositionOnMap == keyOf(playerPos) \in DOMAIN TILE_DATA

\* the player stands on a corner of the outer ring and a move off the map
\* has just been refused
C2_Witness ==
    /\ playerPos = [q |-> -4, r |-> 4]
    /\ message = CannotMoveMsg

\* C3 as stated: whenever the map has no tile at c + offset(d), move(d)
\* from c fails with 'Cannot move there!' and leaves position and AP
\* unchanged (whatever the AP).
C3_Original ==
    [][\A d \in DOMAIN DIRECTIONS :
          (offMap(d) /\ move(d)) =>
              (message' = CannotMoveMsg /\ UNCHANGED <<playerPos, ap>>)]_vars

\* C3 (amended): whenever the map has no tile at c + offset(d), move(d)
\* from c fails and leaves position, AP and inventory unchanged; it fails
\* with 'Cannot move there!' when AP >= 1 and with 'Not enough AP!' when
\* AP = 0.
C3_OffMapMoveFails ==
    [][\A d \in DOMAIN DIRECTIONS :
          (offMap(d) /\ move(d)) =>
              /\ UNCHANGED player
              /\ message' = IF ap >= 1 THEN CannotMoveMsg ELSE NotEnoughApMsg]_vars

\* a move off the map was refused with AP to spare
C3_Witness ==
    /\ message = CannotMoveMsg
    /\ ap >= 1
    /\ \E d \in DOMAIN DIRECTIONS : offMap(d)

\* the offsets of the six directions, as the claim lists them
C4_Offset ==
    [d \in {"N", "NE", "SE", "S", "SW", "NW"} |->
        CASE d = "N"  -> <<0, -1>>
          [] d = "NE" -> <<1, -1>>
          [] d = "SE" -> <<1, 0>>
          [] d = "S"  -> <<0, 1>>
          [] d = "SW" -> <<-1, 1>>
          [] d = "NW" -> <<-1, 0>>]

\* C4: a successful move(d) decreases AP by exactly 1, changes the position
\* by exactly offset(d) and leaves the inventory unchanged.
C4_MoveEffect ==
    [][\A d \in DOMAIN C4_Offset :
          (move(d) /\ message' = movedMsg(d, ap - 1)) =>
              /\ ap' = ap - 1
              /\ playerPos'.q = playerPos.q + C4_Offset[d][1]
              /\ playerPos'.r = playerPos.r + C4_Offset[d][2]
              /\ inventory' = inventory]_vars

\* a move SW has just succeeded, with resources already in the inventory
C4_Witness ==
    /\ message = movedMsg("SW", ap)
    /\ playerPos = [q |-> -2, r |-> 2]
    /\ itemCount(inventory) > 0

\* C5 as stated: gather() on the Home tile always fails with 'Nothing to
\* gather at home base!', whatever the AP (AP = 0 and AP = 1 included).
C5_Original ==
    [][(currentTile.type = "home" /\ gather) => message' = HomeGatherMsg]_vars

\* C5 (amended): gather() on the Home tile always fails and changes
\* nothing; the failure is 'Nothing to gather at home base!' when AP >= 2
\* and 'Not enough AP! (Need 2 AP)' when AP is 0 or 1.
C5_GatherAtHomeFails ==
    [][(currentTile.type = "home" /\ gather) =>
          /\ UNCHANGED player
          /\ message' = IF ap >= 2 THEN HomeGatherMsg ELSE NeedTwoApMsg]_vars

\* a gather on the Home tile has just been refused for the location
C5_Witness ==
    /\ currentTile.type = "home"
    /\ message = HomeGatherMsg
    /\ ap >= 2

\* C6: whenever AP is below an operation's cost (1 for move, 2 for gather
\* and alchemy) the operation fails with the not-enough-AP message whatever
\* the position, direction or tile, and changes nothing; at AP = 0
\* restoreAP is still applicable and sets AP to 8.
C6_InsufficientAP ==
    /\ [](ap = 0 /\ timers < MaxTimers => ENABLED restoreAP)
    /\ [][/\ \A d \in DOMAIN DIRECTIONS :
                (ap < 1 /\ move(d)) =>
                    (message' = NotEnoughApMsg /\ UNCHANGED player)
          /\ (ap < 2 /\ gather) =>
                (message' = NeedTwoApMsg /\ UNCHANGED player)
          /\ (ap < 2 /\ alchemy) =>
                (message' = NeedTwoApMsg /\ UNCHANGED player)
          /\ (ap = 0 /\ restoreAP) =>
                (ap' = 8 /\ message' = RestoredMsg)]_vars

\* a gather was refused for AP on the Home tile, where the location check
\* would have refused it too
C6_Witness ==
    /\ message = NeedTwoApMsg
    /\ ap < 2
    /\ atHome

\* C7: a successful gather() adds to every kind of the current tile's yield
\* table exactly its amount (creating the entry when absent), leaves every
\* other entry unchanged, decreases AP by exactly 2 and leaves the position
\* unchanged.
C7_GatherEffect ==
    [][gatherSucceeds =>
          LET resources == currentTile.resources
          IN /\ DOMAIN inventory' = DOMAIN inventory \cup yieldKinds(resources)
             /\ \A k \in yieldKinds(resources) :
                   inventory'[k] = countOf(inventory, k) + yieldOf(resources, k)
             /\ \A k \in DOMAIN inventory \ yieldKinds(resources) :
                   inventory'[k] = inventory[k]
             /\ ap' = ap - 2
             /\ playerPos' = playerPos]_vars

\* a gather has just added wood and herbs to an inventory that already
\* held wood and a kind the tile does not yield
C7_Witness ==
    /\ message = gatheredMsg(<< <<"wood", 3>>, <<"herbs", 1>> >>)
    /\ countOf(inventory, "wood") = 6
    /\ countOf(inventory, "wheat") = 2

RECURSIVE sumGathered(_, _)
sumGathered(S, k) ==
    IF S = {} THEN 0
    ELSE LET t == CHOOSE x \in S : TRUE
         IN gathered[t] * yieldOf(TILE_DATA[t].resources, k)
            + sumGathered(S \ {t}, k)

\* C8: for every resource kind k the inventory count of k equals the sum
\* over tiles t of (successful gathers performed at t) x (t's fixed yield
\* of k): repeated gathers at a tile add the same amounts, with no
\* depletion.
C8_YieldLinear ==
    \A k \in Kinds \cup DOMAIN inventory :
        countOf(inventory, k) = sumGathered(DOMAIN gathered, k)

\* two gathers at one tile and one at another
C8_Witness ==
    \E t1, t2 \in DOMAIN gathered :
        t1 # t2 /\ gathered[t1] = 2 /\ gathered[t2] = 1

\* C9: no transition decreases an inventory count or removes an entry,
\* every count is non-negative in every reachable state, and only a
\* successful gather changes the inventory.
C9_InventoryMonotone ==
    /\ [](\A k \in DOMAIN inventory : inventory[k] \in Nat)
    /\ [][/\ \A k \in DOMAIN inventory :
                k \in DOMAIN inventory' /\ inventory'[k] >= inventory[k]
          /\ inventory' # inventory => gatherSucceeds]_vars

\* alchemy has just been performed with resources in the inventory
C9_Witness ==
    /\ message = AlchemyMsg
    /\ itemCount(inventory) > 0

\* C10: restoreAP has no precondition; from any state it results in
\* AP = 8 and leaves position and inventory unchanged, and a second call
\* right after the first changes nothing the first call set.
C10_RestoreAP ==
    /\ [](timers < MaxTimers => ENABLED restoreAP)
    /\ [][restoreAP =>
            /\ ap' = 8
            /\ UNCHANGED <<playerPos, inventory>>
            /\ message' = RestoredMsg
            /\ (message = RestoredMsg /\ ap = 8) =>
                  UNCHANGED <<playerPos, ap, inventory, message>>]_vars

\* restoreAP has been called twice in a row away from Home
C10_Witness ==
    /\ message = RestoredMsg
    /\ ap = 8
    /\ timers = 2
    /\ ~atHome
    /\ itemCount(inventory) > 0

\* the Home coordinate of the specification
HomeCoordinate == [q |-> 0, r |-> 0]

\* C11: alchemy succeeds if and only if the position is (0,0) and AP >= 2;
\* on success AP decreases by exactly 2 and position and inventory are
\* unchanged; with AP >= 2 away from Home it fails with 'Must be at home
\* base to use alchemy!' and changes nothing.
C11_AlchemyGate ==
    [][alchemy =>
          /\ (message' = AlchemyMsg) <=> (playerPos = HomeCoordinate /\ ap >= 2)
          /\ (message' = AlchemyMsg) =>
                (ap' = ap - 2 /\ UNCHANGED <<playerPos, inventory>>)
          /\ (ap >= 2 /\ playerPos # HomeCoordinate) =>
                (message' = NotAtHomeMsg /\ UNCHANGED player)]_vars

\* alchemy has been performed until the AP ran out
C11_Witness ==
    /\ message = AlchemyMsg
    /\ playerPos = HomeCoordinate
    /\ ap = 0

\* the messages that report a failed operation
FailureMsgs ==
    {NotEnoughApMsg, NeedTwoApMsg, CannotMoveMsg, HomeGatherMsg,
     NothingHereMsg, NotAtHomeMsg}

\* C12: every operation is all-or-nothing: a move, gather or alchemy that
\* reports a failure leaves position, AP and inventory as they were, and
\* one that reports success applies its whole effect; no step moves the
\* player or adds to the inventory without the AP being charged.
C12_AllOrNothing ==
    [][/\ ((\E d \in DOMAIN DIRECTIONS : move(d)) \/ gather \/ alchemy) =>
             ((message' \in FailureMsgs) <=> UNCHANGED player)
       /\ \A d \in DOMAIN DIRECTIONS :
             (move(d) /\ message' \notin FailureMsgs) =>
                 (playerPos' = target(d) /\ ap' = ap - 1 /\ UNCHANGED inventory)
       /\ (gather /\ message' \notin FailureMsgs) =>
             (inventory' # inventory /\ ap' = ap - 2 /\ UNCHANGED playerPos)
       /\ (alchemy /\ message' \notin FailureMsgs) =>
             (ap' = ap - 2 /\ UNCHANGED <<playerPos, inventory>>)
       /\ (playerPos' # playerPos) => ap' = ap - 1
       /\ (inventory' # inventory) => ap' = ap - 2]_vars

\* alchemy has just been refused away from Home, with AP to spare and
\* resources in the inventory
C12_Witness ==
    /\ message = NotAtHomeMsg
    /\ ap >= 2
    /\ itemCount(inventory) > 0

\* the inventory the reference scenario ends with
C13_Inventory == ("wood" :> 3) @@ ("herbs" :> 1)

\* the player state after n calls of the reference scenario
C13_After(n, q, r, points, inv) ==
    calls = n =>
        /\ playerPos = [q |-> q, r |-> r]
        /\ ap = points
        /\ inventory = inv

\* C13: from the initial state (position (0,0), AP 8, empty inventory),
\* move(N) succeeds giving position (0,-1), AP 7; gather() gives AP 5 and
\* inventory exactly {wood: 3, herbs: 1}; move(S) returns to (0,0) with
\* AP 4; gather() at Home fails with 'Nothing to gather at home base!',
\* AP still 4 and inventory unchanged; restoreAP() gives AP 8.
C13_Scenario ==
    /\ [](/\ C13_After(0, 0, 0, 8, [k \in {} |-> 0])
          /\ C13_After(1, 0, -1, 7, [k \in {} |-> 0])
          /\ C13_After(2, 0, -1, 5, C13_Inventory)
          /\ C13_After(3, 0, 0, 4, C13_Inventory)
          /\ C13_After(4, 0, 0, 4, C13_Inventory)
          /\ C13_After(5, 0, 0, 8, C13_Inventory))
    /\ [][/\ (calls = 0 /\ calls' = 1) => message' = "Moved N. AP: 7"
          /\ (calls = 1 /\ calls' = 2) => message' = "Gathered: wood +3, herbs +1"
          /\ (calls = 2 /\ calls' = 3) => message' = "Moved S. AP: 4"
          /\ (calls = 3 /\ calls' = 4) =>
                (message' = "Nothing to gather at home base!" /\ UNCHANGED player)
          /\ (calls = 4 /\ calls' = 5) => message' = "AP restored to 8!"]_vars

\* the scenario has run to its end
C13_Witness ==
    /\ calls = 5
    /\ message = RestoredMsg
    /\ ap = 8
    /\ playerPos = HomeCoordinate
    /\ inventory = C13_Inventory
    /\ gathered = ("0,-1" :> 1)

\* the hex distance of a coordinate from (0,0)
hexDistance(pos) ==
    LET abs(x) == IF x < 0 THEN -x ELSE x
        a == abs(pos.q)
        b == abs(pos.r)
        c == abs(pos.q + pos.r)
    IN IF a >= b /\ a >= c THEN a ELSE IF b >= c THEN b ELSE c

\* the coordinates within hex distance n of (0,0), and those of them at
\* distance exactly n that the map has a tile for
coordsWithin(n) == { c \in [q : -n..n, r : -n..n] : hexDistance(c) <= n }
tilesOfRing(n) ==
    { c \in coordsWithin(n) :
        hexDistance(c) = n /\ keyOf(c) \in DOMAIN TILE_DATA }
tilesWithin(n) == { c \in coordsWithin(n) : keyOf(c) \in DOMAIN TILE_DATA }

\* C14: the map contains exactly one tile whose terrain class is Home, it
\* is the tile at coordinate (0,0), and its resource yield table is empty.
C14_SingleHome ==
    /\ { t \in DOMAIN TILE_DATA : TILE_DATA[t].type = "home" }
          = { keyOf(HomeCoordinate) }
    /\ Len(TILE_DATA[keyOf(HomeCoordinate)].resources) = 0
    /\ (currentTile.type = "home") <=> (playerPos = HomeCoordinate)

\* the player has walked back onto the one Home tile
C14_Witness ==
    /\ currentTile.type = "home"
    /\ Len(currentTile.resources) = 0
    /\ message = movedMsg("NW", ap)
    /\ ap = 6

\* C15 as stated: the map has exactly 52 tiles, in six concentric rings
\* around the single Home tile at (0,0).
C15_Original ==
    /\ hexDistance(playerPos) <= 6
    /\ Cardinality(DOMAIN TILE_DATA) = 52
    /\ Cardinality(tilesWithin(6)) = 52
    /\ \A n \in 1..6 : tilesOfRing(n) # {}
    /\ tilesOfRing(0) = {HomeCoordinate}

\* C15 (amended): the map has exactly 61 tiles: the single Home tile at
\* (0,0) and four complete concentric rings around it, of 6, 12, 18 and
\* 24 tiles at hex distance 1 to 4; there is no tile further out.
C15_FourRings ==
    /\ Cardinality(DOMAIN TILE_DATA) = 61
    /\ Cardinality(tilesWithin(4)) = 61
    /\ \A n \in 1..4 : Cardinality(tilesOfRing(n)) = 6 * n
    /\ tilesOfRing(0) = {HomeCoordinate}

C15_MapShape == C15_FourRings /\ hexDistance(playerPos) <= 4

\* the player stands on the outermost ring, having just moved there
C15_Witness ==
    /\ hexDistance(playerPos) = 4
    /\ playerPos = [q |-> 2, r |-> -4]
    /\ message = movedMsg("NE", ap)

\* C16: the session starts with position (0,0), AP 8 and an empty
\* inventory, and position, AP and inventory are changed only by the four
\* operations move, gather, alchemy and restoreAP; the status-message timer
\* callback changes none of them.
C16_OnlyFourOperations ==
    /\ (playerPos = HomeCoordinate /\ ap = 8 /\ DOMAIN inventory = {})
    /\ [][/\ (player' # player) =>
                \/ \E d \in DOMAIN DIRECTIONS : move(d)
                \/ gather
                \/ alchemy
                \/ restoreAP
          /\ clearMessage => UNCHANGED player]_vars

\* the last pending timer has cleared the message of a session in which
\* AP was spent and resources were gathered
C16_Witness ==
    /\ message = ""
    /\ timers = 0
    /\ ap < 8
    /\ itemCount(inventory) > 0

alchemySucceeds == alchemy /\ message' = AlchemyMsg

\* the bounds of the exploration leave room for one more successful gather
roomToGather ==
    /\ timers < MaxTimers
    /\ itemCount(addResources(inventory, currentTile.resources)) <= MaxItems

\* C18: in every reachable state the gather button is enabled if and only
\* if a gather() call in that state succeeds, and the alchemy button is
\* enabled if and only if an alchemy() call in that state succeeds;
\* restoreAP and the six move buttons are always enabled.
C18_ButtonsMatchHandlers ==
    /\ [](/\ restoreButtonEnabled
          /\ \A d \in DOMAIN DIRECTIONS : moveButtonEnabled(d)
          /\ roomToGather => (gatherButtonEnabled <=> ENABLED gatherSucceeds)
          /\ timers < MaxTimers =>
                (alchemyButtonEnabled <=> ENABLED alchemySucceeds))
    /\ [][/\ gather => (gatherButtonEnabled <=> gatherSucceeds)
          /\ alchemy => (alchemyButtonEnabled <=> alchemySucceeds)]_vars

\* a gather call has just been refused for AP on a tile with resources,
\* where the gather button is disabled
C18_Witness ==
    /\ message = NeedTwoApMsg
    /\ ap = 1
    /\ ~atHome
    /\ Len(currentTile.resources) > 0
    /\ ~gatherButtonEnabled

\* the outcomes of the specification and the status messages that report
\* each of them
C19_Reports ==
    [InsufficientAP |-> {NotEnoughApMsg, NeedTwoApMsg},
     InvalidDestination |-> {CannotMoveMsg},
     InvalidLocation |-> {HomeGatherMsg, NotAtHomeMsg},
     NothingToGather |-> {NothingHereMsg},
     success |->
        { movedMsg(d, n) : d \in DOMAIN DIRECTIONS, n \in 0..7 }
          \cup { gatheredMsg(TILE_DATA[t].resources) : t \in DOMAIN TILE_DATA }
          \cup {AlchemyMsg, RestoredMsg}]

\* this step is a call of one of the four handlers
handlerCall ==
    \/ \E d \in DOMAIN DIRECTIONS : move(d)
    \/ gather
    \/ alchemy
    \/ restoreAP

\* C19: every call of move, gather, alchemy or restoreAP ends within the
\* call in exactly one reported outcome (success, InsufficientAP,
\* InvalidDestination, InvalidLocation or NothingToGather), published as a
\* non-empty status message; in no reachable state does a call fault on an
\* absent tile or end without a report.
C19_OneReportPerCall ==
    /\ [](/\ keyOf(playerPos) \in DOMAIN TILE_DATA
          /\ timers < MaxTimers =>
                /\ \A d \in DOMAIN DIRECTIONS : ENABLED move(d)
                /\ ENABLED alchemy
                /\ ENABLED restoreAP
                /\ roomToGather => ENABLED gather)
    /\ [][handlerCall =>
            /\ message' # ""
            /\ timers' = timers + 1
            /\ Cardinality({ o \in DOMAIN C19_Reports :
                               message' \in C19_Reports[o] }) = 1]_vars

\* alchemy has just reported InvalidLocation two tiles away from Home,
\* with no other message timer pending
C19_Witness ==
    /\ message = NotAtHomeMsg
    /\ timers = 1
    /\ hexDistance(playerPos) = 2

\* The same handlers with the AP budget recorded: a call that reports
\* success adds its cost (1 for a move, 2 for a gather or an alchemy) to
\* the segment, and restoreAP starts a new segment.
recordSpend(cost, isGather) ==
    IF message' \in FailureMsgs
    THEN UNCHANGED segment
    ELSE segment' = [spent |-> segment.spent + cost,
                     actions |-> segment.actions + 1,
                     gathers |-> segment.gathers + (IF isGather THEN 1 ELSE 0)]

NextBudget ==
    \/ \E direction \in DOMAIN DIRECTIONS :
          move(direction) /\ recordSpend(1, FALSE) /\ UNCHANGED <<gathered, calls, pending>>
    \/ gather /\ recordSpend(2, TRUE) /\ UNCHANGED <<gathered, calls, pending>>
    \/ alchemy /\ recordSpend(2, FALSE) /\ UNCHANGED <<gathered, calls, pending>>
    \/ /\ restoreAP
       /\ segment' = [spent |-> 0, actions |-> 0, gathers |-> 0]
       /\ UNCHANGED <<gathered, calls, pending>>
    \/ clearMessage /\ UNCHANGED <<hist, pending>>

SpecBudget == Init /\ [][NextBudget]_vars

\* C20: AP increases only through restoreAP and no move, gather or alchemy
\* raises it; in every reachable state AP = 8 minus the total cost of the
\* successful actions since the last restoreAP (or since the start), so a
\* segment holds at most 8 successful actions and at most 4 successful
\* gathers.
C20_ApBudget ==
    /\ [](/\ ap = 8 - segment.spent
          /\ segment.actions <= 8
          /\ segment.gathers <= 4)
    /\ [][/\ (ap' > ap) => restoreAP
          /\ ((\E d \in DOMAIN DIRECTIONS : move(d)) \/ gather \/ alchemy) =>
                ap' <= ap]_vars

\* four gathers in one segment have used up the whole budget
C20_Witness ==
    /\ segment.gathers = 4
    /\ segment.actions = 4
    /\ ap = 0

\* the tiles of the map next to a coordinate: one step away in one of the
\* six directions
neighbours(c) ==
    { n \in { [q |-> c.q + DIRECTIONS[d].q, r |-> c.r + DIRECTIONS[d].r] :
                d \in DOMAIN DIRECTIONS } : keyOf(n) \in DOMAIN TILE_DATA }

\* every tile of the map has a neighbouring tile in the map
C24_NoIsolatedTile ==
    /\ Cardinality(tilesWithin(4)) = Cardinality(DOMAIN TILE_DATA)
    /\ \A c \in tilesWithin(4) : neighbours(c) # {}

\* C24: there is no terminal or stuck state: in every reachable state
\* restoreAP is applicable and succeeds (AP 8, 'AP restored to 8!'), and in
\* every reachable state with AP >= 1 at least one of the six moves
\* succeeds, every tile of the map having a neighbouring tile in the map.
C24_NeverStuck ==
    /\ C24_NoIsolatedTile
    /\ timers < MaxTimers =>
          /\ ENABLED (restoreAP /\ ap' = 8 /\ message' = RestoredMsg)
          /\ ap >= 1 =>
                \E d \in DOMAIN DIRECTIONS :
                    /\ ~offMap(d)
                    /\ ENABLED (/\ move(d)
                                /\ playerPos' = target(d)
                                /\ message' = movedMsg(d, ap - 1))

\* the AP has run out on a corner of the outer ring and a further call
\* has been refused: restoreAP is the way on
C24_Witness ==
    /\ ap = 0
    /\ playerPos = [q |-> 4, r |-> -4]
    /\ message = NotEnoughApMsg
    /\ itemCount(inventory) > 0

\* the two tests for Home agree on every tile of the map: gather's test of
\* the tile type and alchemy's test of the coordinate
C25_HomeTestsAgree ==
    \A t \in DOMAIN TILE_DATA :
        (TILE_DATA[t].type = "home") <=> (t = keyOf(HomeCoordinate))

\* C25: gather and alchemy (the Home action) are mutually exclusive: in no
\* reachable state would both a gather() call and an alchemy() call
\* succeed, because the tile-type test of gather and the coordinate test
\* of alchemy and of the buttons agree on every tile of the map.
C25_GatherXorAlchemy ==
    /\ C25_HomeTestsAgree
    /\ (currentTile.type = "home") <=> atHome
    /\ ~(ENABLED alchemySucceeds /\ ENABLED gatherSucceeds)
    /\ ~(canAlchemy /\ canGather)

\* at Home with a stocked inventory and AP to spend, where gather has just
\* been refused and alchemy would succeed
C25_Witness ==
    /\ atHome
    /\ message = HomeGatherMsg
    /\ ap >= 2
    /\ itemCount(inventory) >= 4
    /\ timers = 1

\* the opposite of each direction
C26_Opposite ==
    ("N" :> "S") @@ ("S" :> "N") @@ ("NE" :> "SW") @@ ("SW" :> "NE") @@
    ("SE" :> "NW") @@ ("NW" :> "SE")

\* the coordinate the player has left, when the last step was a move in
\* direction d
cameFrom(d) ==
    [q |-> playerPos.q - C4_Offset[d][1], r |-> playerPos.r - C4_Offset[d][2]]

\* C26: moves are reversible: when move(d) has succeeded from a position
\* c and at least 1 AP remains, move(opposite(d)) from the new position
\* never fails with 'Cannot move there!' and returns the player exactly to
\* c, with AP lower by 2 in total and the inventory unchanged. (The status
\* message 'Moved d. AP: n' with n the current AP tells that the last call
\* was the successful move(d).)
C26_Reversible ==
    [][\A d \in DOMAIN C26_Opposite :
          /\ (move(d) /\ message' = movedMsg(d, ap - 1)) =>
                /\ playerPos = [q |-> playerPos'.q - C4_Offset[d][1],
                                r |-> playerPos'.r - C4_Offset[d][2]]
                /\ ap' = ap - 1
                /\ inventory' = inventory
          /\ (message = movedMsg(d, ap) /\ ap >= 1 /\ move(C26_Opposite[d])) =>
                /\ message' # CannotMoveMsg
                /\ message' = movedMsg(C26_Opposite[d], ap - 1)
                /\ playerPos' = cameFrom(d)
                /\ ap' = (ap + 1) - 2
                /\ inventory' = inventory]_vars

\* the player is back at Home by a move S with 6 AP left: the two AP spent
\* since the AP was last 8 are a move N from Home and the move S back
C26_Witness ==
    /\ message = movedMsg("S", ap)
    /\ playerPos = HomeCoordinate
    /\ ap = 6
    /\ timers = 2

\* the coordinates the player can stand on after at most n successful
\* moves from Home, and the tiles from which at most n successful moves
\* lead to Home
RECURSIVE reachWithin(_)
reachWithin(n) ==
    IF n = 0 THEN {HomeCoordinate}
    ELSE UNION { R \cup UNION { neighbours(c) : c \in R } :
                    R \in { reachWithin(n - 1) } }

RECURSIVE homeWithin(_)
homeWithin(n) ==
    IF n = 0 THEN {HomeCoordinate}
    ELSE UNION { H \cup { c \in tilesWithin(4) : neighbours(c) \cap H # {} } :
                    H \in { homeWithin(n - 1) } }

\* every tile of the map is within 8 successful moves of Home, and Home
\* is within 8 successful moves of every tile
C27_Connected ==
    /\ { keyOf(c) : c \in reachWithin(8) } = DOMAIN TILE_DATA
    /\ \A c \in reachWithin(8) : hexDistance(c) <= 4
    /\ reachWithin(8) \subseteq homeWithin(8)
    /\ tilesWithin(4) \subseteq homeWithin(8)

\* C27: the map is connected and bounded around Home: in every reachable
\* state the position is within hex distance 4 of (0,0); every tile of the
\* map is reachable from the initial state by successful moves alone
\* within a single 8-AP budget; and from every reachable state a sequence
\* of moves and restoreAP brings the player back to Home. (The player
\* stands on a tile from which successful moves lead Home, the successful
\* moves are exactly the steps to a neighbouring tile of the map, and
\* restoreAP refills the budget in every state.)
C27_ConnectedAndBounded ==
    /\ [](/\ C27_Connected
          /\ hexDistance(playerPos) <= 4
          /\ playerPos \in tilesWithin(4)
          /\ timers < MaxTimers =>
                /\ ENABLED (restoreAP /\ ap' = 8 /\ UNCHANGED playerPos)
                /\ ap >= 1 =>
                      \A d \in DOMAIN DIRECTIONS :
                          offMap(d) \/ ENABLED (move(d) /\ playerPos' = target(d)))
    /\ [][playerPos' # playerPos =>
            playerPos' \in neighbours(playerPos)]_vars

\* the player stands on the outer ring four moves S of Home, on the first
\* four AP of a budget and with nothing gathered yet
C27_Witness ==
    /\ playerPos = [q |-> 0, r |-> 4]
    /\ message = movedMsg("S", ap)
    /\ ap = 4
    /\ DOMAIN inventory = {}

\* every tile of the map other than Home has a non-empty yield table with
\* strictly positive amounts
C28_EveryTileYields ==
    \A t \in DOMAIN TILE_DATA \ { keyOf(HomeCoordinate) } :
        /\ Len(TILE_DATA[t].resources) > 0
        /\ \A i \in DOMAIN TILE_DATA[t].resources :
              TILE_DATA[t].resources[i][2] > 0

\* C28: on the map of the program the outcome 'Nothing to gather here!'
\* is unreachable: every tile other than Home has a non-empty yield table
\* with strictly positive amounts, so in every reachable state with
\* AP >= 2 and the position not Home a gather() call succeeds and strictly
\* increases at least one inventory count.
C28_AlwaysSomethingToGather ==
    /\ [](C28_EveryTileYields /\ message # NothingHereMsg)
    /\ [][(gather /\ ap >= 2 /\ playerPos # HomeCoordinate) =>
            /\ message' = gatheredMsg(currentTile.resources)
            /\ message' # NothingHereMsg
            /\ \E k \in Kinds : countOf(inventory', k) > countOf(inventory, k)
            /\ \A k \in Kinds : countOf(inventory', k) >= countOf(inventory, k)]_vars

\* wheat has just been gathered twice on the outer ring
C28_Witness ==
    /\ message = gatheredMsg(<< <<"wheat", 2>> >>)
    /\ hexDistance(playerPos) = 4
    /\ countOf(inventory, "wheat") = 4
    /\ ap = 0

\* Every showMessage schedules its own timer with the same delay of 3000 ms
\* and none is ever cancelled, so the pending timers fire in the order of
\* their calls: a clearMessage step is the oldest pending timer, and a
\* displayed message belongs to the newest. The timer that fires is that
\* of the displayed message exactly when it is the only one pending.

\* C22: a status message published by an action stays displayed until the
\* interval scheduled for that same message has elapsed or a later action
\* replaces it: a clear-timer scheduled by an earlier action never blanks
\* the message of a later action.
C22_OwnTimerOnly ==
    [][(clearMessage /\ message # "") => timers = 1]_vars

\* A short session: at most MaxShort handler calls, after which no further
\* action is issued. The browser's event loop runs the callback of every
\* timer that is due, so a pending clearMessage is not postponed for ever.
countShort ==
    /\ calls < MaxShort
    /\ calls' = calls + 1

NextQuiet ==
    \/ \E direction \in DOMAIN DIRECTIONS :
          move(direction) /\ countShort /\ UNCHANGED <<gathered, segment, pending>>
    \/ gather /\ countShort /\ UNCHANGED <<gathered, segment, pending>>
    \/ alchemy /\ countShort /\ UNCHANGED <<gathered, segment, pending>>
    \/ restoreAP /\ countShort /\ UNCHANGED <<gathered, segment, pending>>
    \/ clearMessage /\ UNCHANGED <<hist, pending>>

SpecQuiet ==
    Init /\ [][NextQuiet]_vars /\ WF_vars(clearMessage /\ UNCHANGED <<hist, pending>>)

\* C23 as stated: every status message is transient: if no further action
\* is issued, then under fair firing of the pending timers the displayed
\* message eventually becomes empty and stays empty, and the number of
\* pending clear-timers returns to zero.
C23_Original == <>[](message = "" /\ timers = 0)

\* C23 (amended): every status message published by an action is
\* transient: while it is displayed a clear-timer is pending, and if no
\* further action is issued then under fair firing of the pending timers
\* the displayed message eventually becomes empty and stays empty and the
\* number of pending clear-timers returns to zero. The welcome message of
\* the initial state has no timer: it stays until the first action.
C23_Transient ==
    /\ []((message # "" /\ message # WelcomeMsg) => timers > 0)
    /\ [](message = WelcomeMsg => (calls = 0 /\ timers = 0))
    /\ <>[](calls = 0 \/ (message = "" /\ timers = 0))

\* the session is over and the message of its last action has been cleared
C23_Witness ==
    /\ calls = MaxShort
    /\ message = ""
    /\ timers = 0
    /\ ap < 8

\* ======================================================================
\* The handlers and the render apart
\* ======================================================================
\* A handler is a closure of the render that created it: playerPos, ap and
\* inventory in its body are the constants of that render, and setPlayerPos,
\* setAp, setInventory and setMessage only queue a value that the next
\* render hands out. After one click React renders before the next click
\* is handled, which is the step of the actions above. Below, the handlers
\* of one render may be called up to MaxBurst times before React renders.

\* the values a render hands to its handlers
snapshot == [playerPos |-> playerPos, ap |-> ap, inventory |-> inventory]

\* one call of a state setter
set(setter, value) == [setter |-> setter, value |-> value]

\* the setter calls of move(direction) in a render with values S
moveSets(S, direction) ==
    IF S.ap < 1
    THEN << set("setMessage", NotEnoughApMsg) >>
    ELSE LET dir == DIRECTIONS[direction]
             newPos == [q |-> S.playerPos.q + dir.q, r |-> S.playerPos.r + dir.r]
             key == keyOf(newPos)
         IN IF key \in DOMAIN TILE_DATA
            THEN << set("setPlayerPos", newPos),
                    set("setAp", S.ap - 1),
                    set("setMessage", movedMsg(direction, S.ap - 1)) >>
            ELSE << set("setMessage", CannotMoveMsg) >>

\* the setter calls of gather() in a render with values S
gatherSets(S) ==
    IF S.ap < 2
    THEN << set("setMessage", NeedTwoApMsg) >>
    ELSE LET tile == TILE_DATA[keyOf(S.playerPos)]
         IN IF tile.type = "home"
            THEN << set("setMessage", HomeGatherMsg) >>
            ELSE IF Len(tile.resources) = 0
            THEN << set("setMessage", NothingHereMsg) >>
            ELSE << set("setInventory", addResources(S.inventory, tile.resources)),
                    set("setAp", S.ap - 2),
                    set("setMessage", gatheredMsg(tile.resources)) >>

\* the setter calls of alchemy() in a render with values S
alchemySets(S) ==
    IF S.ap < 2
    THEN << set("setMessage", NeedTwoApMsg) >>
    ELSE IF S.playerPos.q # 0 \/ S.playerPos.r # 0
    THEN << set("setMessage", NotAtHomeMsg) >>
    ELSE << set("setAp", S.ap - 2), set("setMessage", AlchemyMsg) >>

\* the setter calls of restoreAP()
restoreAPSets(S) == << set("setAp", 8), set("setMessage", RestoredMsg) >>

\* the handler calls a click can make
Clicks ==
    { [handler |-> "move", direction |-> d] : d \in DOMAIN DIRECTIONS }
        \cup { [handler |-> h, direction |-> ""] :
                 h \in {"gather", "alchemy", "restoreAP"} }

handlerSets(S, click) ==
    CASE click.handler = "move" -> moveSets(S, click.direction)
      [] click.handler = "gather" -> gatherSets(S)
      [] click.handler = "alchemy" -> alchemySets(S)
      [] click.handler = "restoreAP" -> restoreAPSets(S)

\* the state values after the queued setter calls, taken in their order
RECURSIVE applySets(_, _)
applySets(S, sets) ==
    IF Len(sets) = 0 THEN S
    ELSE LET u == Head(sets)
             T == CASE u.setter = "setPlayerPos" -> [S EXCEPT !.playerPos = u.value]
                    [] u.setter = "setAp" -> [S EXCEPT !.ap = u.value]
                    [] u.setter = "setInventory" -> [S EXCEPT !.inventory = u.value]
                    [] u.setter = "setMessage" -> [S EXCEPT !.message = u.value]
         IN applySets(T, Tail(sets))

\* a handler of the current render is called: its setter calls are queued
\* and the timer of its one showMessage is scheduled
issue(click) ==
    /\ Len(pending.issued) < MaxBurst
    /\ timers < MaxTimers
    /\ pending' = [queue |-> pending.queue \o handlerSets(snapshot, click),
                   issued |-> Append(pending.issued, click)]
    /\ timers' = timers + 1
    /\ UNCHANGED <<playerPos, ap, inventory, message>>

\* React renders: the hooks return the values the queued setter calls
\* leave, and the handlers are created anew
render ==
    /\ Len(pending.issued) > 0
    /\ LET S == applySets([playerPos |-> playerPos, ap |-> ap,
                           inventory |-> inventory, message |-> message],
                          pending.queue)
       IN /\ playerPos' = S.playerPos
          /\ ap' = S.ap
          /\ inventory' = S.inventory
          /\ message' = S.message
    /\ pending' = NothingPending
    /\ UNCHANGED timers

\* A timer callback is a task of its own: it runs when no click is being
\* handled, after the render of the last one.
NextBurst ==
    \/ \E direction \in DOMAIN DIRECTIONS :
          /\ issue([handler |-> "move", direction |-> direction])
          /\ countShort /\ UNCHANGED <<gathered, segment>>
    \/ issue([handler |-> "gather", direction |-> ""])
          /\ countShort /\ UNCHANGED <<gathered, segment>>
    \/ issue([handler |-> "alchemy", direction |-> ""])
          /\ countShort /\ UNCHANGED <<gathered, segment>>
    \/ issue([handler |-> "restoreAP", direction |-> ""])
          /\ countShort /\ UNCHANGED <<gathered, segment>>
    \/ render /\ UNCHANGED hist
    \/ Len(pending.issued) = 0 /\ clearMessage /\ UNCHANGED <<hist, pending>>

SpecBurst == Init /\ [][NextBurst]_vars

\* the state values after the calls of a sequence, each call made on the
\* values the call before it has left
RECURSIVE sequential(_, _)
sequential(S, clicks) ==
    IF Len(clicks) = 0 THEN S
    ELSE sequential(applySets(S, handlerSets(S, Head(clicks))), Tail(clicks))

====
